---- MODULE Spec2Model ----
(***************************************************************************)
(* Model of glycan_profiling/chromatogram_tree/relation_graph.py:          *)
(* ChromatogramGraph (construction, seed queue, find_edges), the edge and  *)
(* node classes, and explode_node.                                         *)
(*                                                                         *)
(* Nodes are referred to by their index (the 0-based position assigned at  *)
(* construction); a node's mutable edge set lives in node_edges[index].    *)
(* Float quotients (center, mass_error) are kept as reduced fractions      *)
(* <<numerator, denominator>>.                                             *)
(***************************************************************************)
EXTENDS Integers, Sequences, FiniteSets, TLC

\* ------------------------------------------------------------------ bounds

\* Largest number of chromatograms handed to the constructor.
MaxChromatograms == 3

\* Largest number of enqueue_seed calls made after construction.
MaxExtraSeeds == 2

\* ------------------------------------------------------- values and inputs

\* The null composition (Python None).
NoComposition == "None"

\* find_mass returned None.
NoMatch == -1

\* query_width default of find_edges.
DefaultQueryWidth == 2

\* weight default of ChromatogramGraphEdge.
DefaultWeight == 1

\* _standard_transitions, in list order.
StandardTransitions == <<"HexNAc", "Hex", "NeuAc", "Fuc", "HexA">>

\* transition.mass(): the five standard residues on a reduced integer scale
\* that keeps their order (Fuc < Hex < HexA < HexNAc < NeuAc), and three
\* caller-supplied descriptors: Man (isobaric with Hex), HexLoss (a negative
\* delta) and Unmodified (a zero delta).
Mass(transition) ==
    CASE transition = "Fuc" -> 2
      [] transition = "Hex" -> 5
      [] transition = "HexA" -> 8
      [] transition = "HexNAc" -> 11
      [] transition = "NeuAc" -> 14
      [] transition = "Man" -> 5
      [] transition = "HexLoss" -> 0 - 5
      [] transition = "Unmodified" -> 0

\* The transitions arguments find_edges is called with (None = the default).
TransitionLists ==
    { StandardTransitions, <<"Man", "Hex">>, <<"HexLoss">> }

\* The query_width arguments find_edges is called with.
QueryWidths == {0, DefaultQueryWidth}

\* One observation of a chromatogram: retention_time and total_intensity().
Obs(rt, intensity) == [retention_time |-> rt, intensity |-> intensity]

\* The chromatograms the inputs are drawn from.
Chroma(s, e, m, c, obs) ==
    [start_time |-> s, end_time |-> e, neutral_mass |-> m, composition |-> c,
     nodes |-> obs]

ChromatogramPool ==
    { Chroma(0, 2, 10, "A", <<Obs(1, 1)>>),
      Chroma(1, 3, 15, NoComposition, <<Obs(1, 1), Obs(3, 3)>>),
      Chroma(2, 4, 21, "A", <<Obs(3, 2)>>),
      Chroma(5, 6, 15, "B", <<Obs(5, 1), Obs(6, 2)>>) }

Range(s) == {s[i] : i \in DOMAIN s}

\* The sequences of at most n distinct elements of S.
RECURSIVE SeqsUpTo(_, _)
SeqsUpTo(S, n) ==
    IF n = 0 THEN {<<>>}
    ELSE LET shorter == SeqsUpTo(S, n - 1)
         IN shorter \cup {Append(s, x) : s \in shorter, x \in S}

DistinctSeqsUpTo(S, n) ==
    {s \in SeqsUpTo(S, n) : Cardinality(Range(s)) = Len(s)}

\* ------------------------------------------------------------- arithmetic

Abs(x) == IF x < 0 THEN 0 - x ELSE x

RECURSIVE GCD(_, _)
GCD(a, b) == IF b = 0 THEN a ELSE GCD(b, a % b)

\* The quotient n / d (d > 0) in lowest terms.
Frac(n, d) == LET g == GCD(Abs(n), d) IN <<n \div g, d \div g>>

FracSub(x, y) == Frac(x[1] * y[2] - y[1] * x[2], x[2] * y[2])

\* ------------------------------------------------------------------ nodes

RECURSIVE WeightedTotal(_, _)
WeightedTotal(obs, i) ==
    IF i > Len(obs) THEN 0
    ELSE obs[i].retention_time * obs[i].intensity + WeightedTotal(obs, i + 1)

RECURSIVE Abundance(_, _)
Abundance(obs, i) ==
    IF i > Len(obs) THEN 0 ELSE obs[i].intensity + Abundance(obs, i + 1)

\* self.center = total / abundance
Center(chromatogram) ==
    Frac(WeightedTotal(chromatogram.nodes, 1), Abundance(chromatogram.nodes, 1))

\* ChromatogramGraphNode(chromatogram, index); the edge set starts empty and
\* is held in node_edges.
ChromatogramGraphNode(chromatogram, index) ==
    [chromatogram |-> chromatogram,
     index |-> index,
     start |-> chromatogram.start_time,
     end |-> chromatogram.end_time,
     neutral_mass |-> chromatogram.neutral_mass,
     center |-> Center(chromatogram)]

\* ------------------------------------------------------------------ edges

\* frozenset((node_a.index, node_b.index))
EndpointPair(e) == {e.node_a, e.node_b}

\* A plausible slip: comparing the endpoints as an ordered tuple.
EdgeEqOrdered(e, f) == e.node_a = f.node_a /\ e.node_b = f.node_b

\* ChromatogramGraphEdge.__eq__ (and __hash__, which agrees with it).
EdgeEq(e, f) == EndpointPair(e) = EndpointPair(f)

\* A plausible slip: the new element replaces the equal one.
SetAddReplacing(S, e) == {x \in S : ~EdgeEq(x, e)} \cup {e}

\* set.add(e): when an element equal to e is present the set is left as it
\* is (the element already there stays).
SetAdd(S, e) == IF \E x \in S : EdgeEq(x, e) THEN S ELSE S \cup {e}

\* The fields ChromatogramGraphEdge.__init__ stores.
EdgeRecord(node_a, node_b, transition, mass_error, rt_error) ==
    [node_a |-> node_a, node_b |-> node_b, transition |-> transition,
     weight |-> DefaultWeight, mass_error |-> mass_error, rt_error |-> rt_error]

\* A plausible slip: the edge is registered on node_a only.
RegisterOnNodeAOnly(ne, e) == [ne EXCEPT ![e.node_a] = SetAdd(@, e)]

\* A plausible slip: the endpoints' edge sets are assigned, not added to.
RegisterAssigning(ne, e) ==
    [[ne EXCEPT ![e.node_a] = {e}] EXCEPT ![e.node_b] = {e}]

\* self.node_a.edges.add(self); self.node_b.edges.add(self)
RegisterEdge(ne, e) ==
    LET first == [ne EXCEPT ![e.node_a] = SetAdd(@, e)]
    IN [first EXCEPT ![e.node_b] = SetAdd(@, e)]

\* ----------------------------------------------------------- construction

\* if node.chromatogram.composition:
HasComposition(chromatogram) == chromatogram.composition # NoComposition

\* enqueue_seed: assigned_seed_queue.append(node)
enqueue_seed(queue, index) == Append(queue, index)

\* A plausible slip: an existing entry is kept.
MapPutIfAbsent(map, key, value) ==
    IF key \in DOMAIN map THEN map
    ELSE [k \in DOMAIN map \cup {key} |-> IF k = key THEN value ELSE map[k]]

\* self.assignment_map[composition] = node
MapPut(map, key, value) ==
    [k \in DOMAIN map \cup {key} |-> IF k = key THEN value ELSE map[k]]

\* A plausible slip: the seed test is dropped.
SeedAlways(node) == TRUE

\* The test that decides whether a node is a seed.
SeedTest(node) == HasComposition(node.chromatogram)

\* One pass of the for loop of _construct_graph_nodes, for position i
\* (0-based) of the input.
ConstructIteration(st, chromatograms, i) ==
    LET node == ChromatogramGraphNode(chromatograms[i + 1], i)
        appended == [st EXCEPT !.nodes = Append(@, node)]
    IN IF SeedTest(node)
       THEN [appended EXCEPT
               !.assigned_seed_queue = enqueue_seed(@, node.index),
               !.assignment_map =
                   MapPut(@, node.chromatogram.composition, node.index)]
       ELSE appended

\* The for loop of _construct_graph_nodes from position i on.
RECURSIVE ConstructLoop(_, _, _)
ConstructLoop(chromatograms, i, st) ==
    IF i >= Len(chromatograms) THEN st
    ELSE ConstructLoop(chromatograms, i + 1,
                       ConstructIteration(st, chromatograms, i))

EmptyMap == [k \in {} |-> 0]

\* The locals and fields _construct_graph_nodes starts from.
ConstructEntry ==
    [nodes |-> <<>>, assigned_seed_queue |-> <<>>, assignment_map |-> EmptyMap]

\* _construct_graph_nodes(chromatograms)
ConstructGraphNodes(chromatograms) ==
    ConstructLoop(chromatograms, 0, ConstructEntry)

\* ------------------------------------------------------------------ state

VARIABLES
    chromatograms,        \* self.chromatograms
    nodes,                \* self.nodes
    rt_tree,              \* self.rt_tree: the nodes the interval tree was built from
    edges,                \* self.edges
    node_edges,           \* node.edges, by node index
    assigned_seed_queue,  \* self.assigned_seed_queue (node indices)
    assignment_map,       \* self.assignment_map (composition -> node index)
    co_pc,                \* __init__: "constructing" or "ready"
    last_call,            \* history: the latest find_edges or explode_node
                          \* call; for find_edges, the edges it constructed
                          \* while self.edges held an equal one
    ex_pc,                \* explode_node: "idle", "loop" or "returned"
    ex_start,             \* explode_node: the index of its argument
    items,                \* explode_node: the work deque
    visited,              \* explode_node: visited indices
    results,              \* explode_node: the result list
    it_pc,                \* iterseeds generator: "idle", "active", "exhausted"
    yielded,              \* what the current generator has yielded so far
    enq_log,              \* history: every seed enqueued, in enqueue order
    n_removed,            \* history: how many seeds have left the queue
    it_from,              \* history: n_removed when the generator was made
    it_stop,              \* history: Len(enq_log) when the generator finished
    drained_before        \* history: an earlier generator was exhausted

graph_vars == <<chromatograms, nodes, rt_tree, assignment_map, co_pc>>
edge_vars == <<edges, node_edges>>
explode_vars == <<ex_pc, ex_start, items, visited, results>>
seed_vars ==
    <<assigned_seed_queue, it_pc, yielded, enq_log, n_removed, it_from, it_stop,
      drained_before>>
vars == <<graph_vars, edge_vars, last_call, explode_vars, seed_vars>>

NodeIndices == 0 .. (Len(nodes) - 1)

NodeAt(index) == nodes[index + 1]

\* No explode_node call is in progress.
NoNode == -1

NoCall == [op |-> "none"]

ExplodeNodeCall == [op |-> "explode_node"]

FindEdgesCalled(collided) == [op |-> "find_edges", collided |-> collided]

\* The seeds among the first n input chromatograms, by index, in input order
\* (what the history enq_log holds after n passes of the constructor's loop).
SeedsOf(input, n) ==
    SelectSeq([i \in 1 .. n |-> i - 1],
              LAMBDA i : input[i + 1].composition # NoComposition)

\* The call-local state of the operations that are not running.
Quiescent ==
    /\ last_call = NoCall
    /\ ex_pc = "idle"
    /\ ex_start = NoNode
    /\ items = <<>>
    /\ visited = {}
    /\ results = <<>>
    /\ it_pc = "idle"
    /\ yielded = <<>>
    /\ n_removed = 0
    /\ it_from = 0
    /\ it_stop = 0
    /\ drained_before = FALSE

\* ChromatogramGraph.__init__(input) entered: the queue and the map are
\* empty and no node is built yet.
ConstructInitFrom(input) ==
    /\ chromatograms = input
    /\ co_pc = "constructing"
    /\ nodes = ConstructEntry.nodes
    /\ assigned_seed_queue = ConstructEntry.assigned_seed_queue
    /\ assignment_map = ConstructEntry.assignment_map
    /\ rt_tree = <<>>
    /\ node_edges = <<>>
    /\ edges = {}
    /\ enq_log = <<>>
    /\ Quiescent

\* One pass of the for loop of _construct_graph_nodes.
ConstructStep ==
    /\ co_pc = "constructing"
    /\ Len(nodes) < Len(chromatograms)
    /\ LET i == Len(nodes)
           st == ConstructIteration(
                    [nodes |-> nodes,
                     assigned_seed_queue |-> assigned_seed_queue,
                     assignment_map |-> assignment_map],
                    chromatograms, i)
       IN /\ nodes' = st.nodes
          /\ assigned_seed_queue' = st.assigned_seed_queue
          /\ assignment_map' = st.assignment_map
          /\ node_edges' = [k \in 0 .. i |-> IF k = i THEN {} ELSE node_edges[k]]
          /\ enq_log' = SeedsOf(chromatograms, i + 1)
    /\ UNCHANGED <<chromatograms, rt_tree, co_pc, edges, last_call, explode_vars,
                   it_pc, yielded, n_removed, it_from, it_stop, drained_before>>

\* The loop is over: self.rt_tree = IntervalTreeNode.build(self.nodes);
\* self.edges = set()
ConstructFinish ==
    /\ co_pc = "constructing"
    /\ Len(nodes) = Len(chromatograms)
    /\ rt_tree' = nodes
    /\ edges' = {}
    /\ co_pc' = "ready"
    /\ UNCHANGED <<chromatograms, nodes, assignment_map, node_edges, last_call,
                   explode_vars, seed_vars>>

\* The state ChromatogramGraph(input) leaves.
InitFrom(input) ==
    /\ chromatograms = input
    /\ co_pc = "ready"
    /\ LET built == ConstructGraphNodes(input)
       IN /\ nodes = built.nodes
          /\ assigned_seed_queue = built.assigned_seed_queue
          /\ assignment_map = built.assignment_map
          /\ rt_tree = built.nodes
          /\ node_edges = [i \in 0 .. (Len(built.nodes) - 1) |-> {}]
    /\ enq_log = SeedsOf(input, Len(input))
    /\ edges = {}
    /\ Quiescent

\* The inputs: at most MaxChromatograms distinct chromatograms of the pool,
\* in any order.
Inputs == DistinctSeqsUpTo(ChromatogramPool, MaxChromatograms)

\* The same, in order of start time (find_edges, explode_node and the seed
\* queue do not read the positions).
ByStartTime(input) ==
    \A i \in 1 .. Len(input) - 1 : input[i].start_time < input[i + 1].start_time

OrderedInputs == {input \in Inputs : ByStartTime(input)}

Init == \E input \in OrderedInputs : InitFrom(input)

\* -------------------------------------------------------------- find_edges

\* TimeQuery(chromatogram, width)
TimeQuery(chromatogram, width) ==
    [start |-> chromatogram.start_time - width,
     end |-> chromatogram.end_time + width]

\* rt_tree.overlaps(start, end): the indices of the nodes whose span overlaps
\* [start, end].
Overlaps(tree, start, end) ==
    {n.index : n \in {m \in Range(tree) : m.start <= end /\ m.end >= start}}

\* The mass tolerance of find_mass, on the model's integer mass scale.
MassTolerance == 1

\* ChromatogramFilter(...).find_mass(target): the possible return values, the
\* candidates nearest to target among those within tolerance (any of them on
\* a tie), NoMatch when there is none.
FindMass(candidates, target) ==
    LET within == {c \in candidates :
                     Abs(NodeAt(c).neutral_mass - target) <= MassTolerance}
        nearest == {c \in within :
                      \A d \in within :
                         Abs(NodeAt(c).neutral_mass - target)
                            <= Abs(NodeAt(d).neutral_mass - target)}
    IN IF within = {} THEN {NoMatch} ELSE nearest

\* ppm_error = (added - match.neutral_mass) / match.neutral_mass
MassError(added, match) ==
    Frac(added - NodeAt(match).neutral_mass, NodeAt(match).neutral_mass)

\* A plausible slip: the operands the other way round.
RtErrorReversed(node, match) == FracSub(NodeAt(match).center, NodeAt(node).center)

\* rt_error = (node.center - match.center)
RtError(node, match) == FracSub(NodeAt(node).center, NodeAt(match).center)

\* The edge find_edges constructs for a match.
NewEdge(node, match, transition) ==
    EdgeRecord(node, match, transition,
               MassError(NodeAt(node).neutral_mass + Mass(transition), match),
               RtError(node, match))

\* The body of the loop over transitions, for one transition and the value
\* find_mass returned for it.
FindEdgesStep(st, node, transition, match) ==
    IF match # NoMatch
    THEN LET e == NewEdge(node, match, transition)
         IN [edges |-> SetAdd(st.edges, e),
             node_edges |-> RegisterEdge(st.node_edges, e),
             matches |-> Append(st.matches, match),
             collided |-> IF \E x \in st.edges : EdgeEq(x, e)
                          THEN st.collided \cup {e} ELSE st.collided]
    ELSE [st EXCEPT !.matches = Append(@, match)]

\* The loop over transitions from position i on: every outcome it can have.
RECURSIVE FindEdgesLoop(_, _, _, _, _)
FindEdgesLoop(node, candidates, transitions, i, st) ==
    IF i > Len(transitions) THEN {st}
    ELSE UNION { FindEdgesLoop(node, candidates, transitions, i + 1,
                               FindEdgesStep(st, node, transitions[i], match)) :
                 match \in FindMass(candidates,
                                    NodeAt(node).neutral_mass + Mass(transitions[i])) }

\* Every outcome of find_edges(node, query_width, transitions) in this state.
FindEdgesOutcomes(node, query_width, transitions) ==
    LET query == TimeQuery(NodeAt(node).chromatogram, query_width)
        candidates == Overlaps(rt_tree, query.start, query.end)
    IN FindEdgesLoop(node, candidates, transitions, 1,
                     [edges |-> edges, node_edges |-> node_edges,
                      matches |-> <<>>, collided |-> {}])

\* ChromatogramGraph.find_edges(node, query_width, transitions)
FindEdges(node, query_width, transitions) ==
    /\ co_pc = "ready"
    /\ ex_pc = "idle"
    /\ \E out \in FindEdgesOutcomes(node, query_width, transitions) :
            /\ edges' = out.edges
            /\ node_edges' = out.node_edges
            /\ last_call' = FindEdgesCalled(out.collided)
    /\ UNCHANGED <<graph_vars, explode_vars, seed_vars>>

FindEdgesCall ==
    \E node \in NodeIndices, query_width \in QueryWidths,
       transitions \in TransitionLists :
        FindEdges(node, query_width, transitions)

\* ------------------------------------------------------------ explode_node

\* The orders in which iterating the set S can produce its elements.
IterationOrders(S) ==
    {s \in [1 .. Cardinality(S) -> S] : Range(s) = S}

\* for edge in node.edges: items.append(edge.node_a); items.append(edge.node_b)
RECURSIVE SeedItems(_, _)
SeedItems(order, i) ==
    IF i > Len(order) THEN <<>>
    ELSE <<order[i].node_a, order[i].node_b>> \o SeedItems(order, i + 1)

\* A plausible slip: only node_b of each edge is followed.
RECURSIVE FollowNodeBOnly(_, _, _)
FollowNodeBOnly(order, i, seen) ==
    IF i > Len(order) THEN <<>>
    ELSE (IF order[i].node_b \notin seen THEN <<order[i].node_b>> ELSE <<>>)
         \o FollowNodeBOnly(order, i + 1, seen)

\* for edge in node.edges: append node_a, then node_b, each unless visited
RECURSIVE FollowEdges(_, _, _)
FollowEdges(order, i, seen) ==
    IF i > Len(order) THEN <<>>
    ELSE (IF order[i].node_a \notin seen THEN <<order[i].node_a>> ELSE <<>>)
         \o (IF order[i].node_b \notin seen THEN <<order[i].node_b>> ELSE <<>>)
         \o FollowEdges(order, i + 1, seen)

\* A plausible slip: the head is read and left in the deque.
PeekLeft(deque) == [value |-> Head(deque), rest |-> deque]

\* items.popleft()
PopLeft(deque) == [value |-> Head(deque), rest |-> Tail(deque)]

\* The locals of explode_node after the loops that seed the deque.
ExplodeEntry(ne, node) ==
    {[items |-> SeedItems(order, 1), visited |-> {}, results |-> <<>>] :
        order \in IterationOrders(ne[node])}

\* One pass of the while loop: the locals it can leave.
ExplodeIteration(ne, st) ==
    LET popped == PopLeft(st.items)
        node == popped.value
    IN IF node \in st.visited
       THEN {[st EXCEPT !.items = popped.rest]}
       ELSE LET seen == st.visited \cup {node}
            IN {[items |-> popped.rest \o FollowEdges(order, 1, seen),
                 visited |-> seen,
                 results |-> Append(st.results, node)] :
                  order \in IterationOrders(ne[node])}

\* The while loop run to its end, taking some iteration order at each set.
RECURSIVE ExplodeLoop(_, _)
ExplodeLoop(ne, st) ==
    IF st.items = <<>> THEN st.results
    ELSE ExplodeLoop(ne, CHOOSE out \in ExplodeIteration(ne, st) : TRUE)

\* explode_node(node): the list it returns, for some iteration order.
explode_node(ne, node) ==
    ExplodeLoop(ne, CHOOSE st \in ExplodeEntry(ne, node) : TRUE)

ExplodeLocals == [items |-> items, visited |-> visited, results |-> results]

\* explode_node(node) is called: the deque is seeded.
ExplodeStart(node) ==
    /\ co_pc = "ready"
    /\ ex_pc = "idle"
    /\ \E st \in ExplodeEntry(node_edges, node) :
          /\ items' = st.items
          /\ visited' = st.visited
          /\ results' = st.results
    /\ ex_start' = node
    /\ ex_pc' = "loop"
    /\ last_call' = ExplodeNodeCall
    /\ UNCHANGED <<graph_vars, edge_vars, seed_vars>>

\* while items: ... (one pass)
ExplodeStep ==
    /\ ex_pc = "loop"
    /\ items # <<>>
    /\ \E st \in ExplodeIteration(node_edges, ExplodeLocals) :
          /\ items' = st.items
          /\ visited' = st.visited
          /\ results' = st.results
    /\ UNCHANGED <<ex_pc, ex_start, last_call, graph_vars, edge_vars, seed_vars>>

\* return results
ExplodeReturn ==
    /\ ex_pc = "loop"
    /\ items = <<>>
    /\ ex_pc' = "returned"
    /\ UNCHANGED <<ex_start, items, visited, results, last_call, graph_vars,
                   edge_vars, seed_vars>>

\* The caller is done with the returned list.
ExplodeDiscard ==
    /\ ex_pc = "returned"
    /\ ex_pc' = "idle"
    /\ ex_start' = NoNode
    /\ items' = <<>>
    /\ visited' = {}
    /\ results' = <<>>
    /\ UNCHANGED <<last_call, graph_vars, edge_vars, seed_vars>>

ExplodeCall == \E node \in NodeIndices : ExplodeStart(node)

\* ------------------------------------------------------------- seed queue

\* A plausible slip: pop() takes the newest seed.
PopNewest(queue) ==
    [value |-> queue[Len(queue)], rest |-> SubSeq(queue, 1, Len(queue) - 1)]

\* pop_seed: assigned_seed_queue.popleft()
pop_seed(queue) == [value |-> Head(queue), rest |-> Tail(queue)]

\* graph.enqueue_seed(node)
EnqueueSeed(node) ==
    /\ co_pc = "ready"
    /\ Len(enq_log) < Len(chromatograms) + MaxExtraSeeds
    /\ assigned_seed_queue' = enqueue_seed(assigned_seed_queue, node)
    /\ enq_log' = Append(enq_log, node)
    /\ UNCHANGED <<it_pc, yielded, n_removed, it_from, it_stop, drained_before,
                   graph_vars, edge_vars, last_call, explode_vars>>

EnqueueCall == \E node \in NodeIndices : EnqueueSeed(node)

\* graph.pop_seed() by the caller, outside an iteration (on an empty queue
\* popleft raises and changes nothing).
PopSeed ==
    /\ it_pc # "active"
    /\ assigned_seed_queue # <<>>
    /\ assigned_seed_queue' = pop_seed(assigned_seed_queue).rest
    /\ n_removed' = n_removed + 1
    /\ UNCHANGED <<it_pc, yielded, enq_log, it_from, it_stop, drained_before,
                   graph_vars, edge_vars, last_call, explode_vars>>

\* graph.iterseeds(): a new generator; nothing runs until it is advanced.
IterSeeds ==
    /\ it_pc \in {"idle", "exhausted"}
    /\ it_pc' = "active"
    /\ yielded' = <<>>
    /\ it_from' = n_removed
    /\ drained_before' = (drained_before \/ it_pc = "exhausted")
    /\ UNCHANGED <<assigned_seed_queue, enq_log, n_removed, it_stop,
                   graph_vars, edge_vars, last_call, explode_vars>>

\* next(generator) while the queue holds a seed: yield self.pop_seed()
IterNext ==
    /\ it_pc = "active"
    /\ assigned_seed_queue # <<>>
    /\ LET popped == pop_seed(assigned_seed_queue)
       IN /\ assigned_seed_queue' = popped.rest
          /\ yielded' = Append(yielded, popped.value)
    /\ n_removed' = n_removed + 1
    /\ UNCHANGED <<it_pc, enq_log, it_from, it_stop, drained_before,
                   graph_vars, edge_vars, last_call, explode_vars>>

\* next(generator) on the empty queue: the while loop ends.
IterStop ==
    /\ it_pc = "active"
    /\ assigned_seed_queue = <<>>
    /\ it_pc' = "exhausted"
    /\ it_stop' = Len(enq_log)
    /\ UNCHANGED <<assigned_seed_queue, yielded, enq_log, n_removed, it_from,
                   drained_before, graph_vars, edge_vars, last_call, explode_vars>>

\* --------------------------------------------------------- specifications

\* Edge finding on a constructed graph.
Next == FindEdgesCall

Spec == Init /\ [][Next]_vars

\* The constructor, one pass of its loop at a time, on inputs in any order.
ConstructInit == \E input \in Inputs : ConstructInitFrom(input)

ConstructNext ==
    \/ ConstructStep
    \/ ConstructFinish

ConstructSpec == ConstructInit /\ [][ConstructNext]_vars

\* The transitions arguments of the calls that build the graphs explode_node
\* is run on.
ExplodeTransitionLists == {StandardTransitions, <<"Unmodified">>}

ExplodeFindEdgesCall ==
    \E node \in NodeIndices, transitions \in ExplodeTransitionLists :
        FindEdges(node, DefaultQueryWidth, transitions)

\* Edge finding and connected-component extraction.
ExplodeNext ==
    \/ ExplodeFindEdgesCall
    \/ ExplodeCall
    \/ ExplodeStep
    \/ ExplodeReturn
    \/ ExplodeDiscard

ExplodeSpec == Init /\ [][ExplodeNext]_vars

\* explode_node runs on once called: nothing suspends its loop.
FairExplodeSpec ==
    ExplodeSpec /\ WF_vars(ExplodeStep) /\ WF_vars(ExplodeReturn)

\* The seed queue of a constructed graph.
SeedNext ==
    \/ EnqueueCall
    \/ PopSeed
    \/ IterSeeds
    \/ IterNext
    \/ IterStop

SeedSpec == Init /\ [][SeedNext]_vars

\* ------------------------------------------------------------- properties

\* The edges of S that join a and b.
PairEdges(S, a, b) == {e \in S : EndpointPair(e) = {a, b}}

\* The nodes a find_edges outcome matched.
Matched(out) == Range(out.matches) \ {NoMatch}

\* The step is a find_edges(node, query_width, transitions) call with
\* outcome out.
IsFindEdges(node, query_width, transitions, out) ==
    /\ out \in FindEdgesOutcomes(node, query_width, transitions)
    /\ edges' = out.edges
    /\ node_edges' = out.node_edges
    /\ last_call' = FindEdgesCalled(out.collided)

\* The edges the step's call constructed: those the set took and those that
\* met an equal edge.
Constructed == (edges' \ edges) \cup last_call'.collided

\* The calls the step can be: find_edges(node, ...) constructs edges whose
\* node_a is node and whose transition is one of its transitions.
PossibleCalls ==
    {c \in [node : NodeIndices, query_width : QueryWidths,
            transitions : TransitionLists] :
        \A e \in Constructed :
            e.node_a = c.node /\ e.transition \in Range(c.transitions)}

\* The step is the call c with outcome out.
IsCall(c, out) == IsFindEdges(c.node, c.query_width, c.transitions, out)

OutcomesOf(c) == FindEdgesOutcomes(c.node, c.query_width, c.transitions)

\* The edge that joins source and match for a transition, from the fields of
\* the two nodes.
ExpectedEdge(source, match, transition) ==
    [node_a |-> source, node_b |-> match, transition |-> transition,
     weight |-> 1,
     mass_error |->
        Frac(NodeAt(source).neutral_mass + Mass(transition)
                - NodeAt(match).neutral_mass,
             NodeAt(match).neutral_mass),
     rt_error |-> FracSub(NodeAt(source).center, NodeAt(match).center)]

\* Node o has the target mass of transition t from source, within tolerance.
HasTargetMass(o, source, t) ==
    Abs(NodeAt(o).neutral_mass - (NodeAt(source).neutral_mass + Mass(t)))
        <= MassTolerance

\* C1: every edge of the graph's edge set is in the edge set of both of its
\* endpoints.
MutualRegistration ==
    \A e \in edges : e \in node_edges[e.node_a] /\ e \in node_edges[e.node_b]

\* C1 witness: an edge joins two nodes after a call that constructed a
\* second edge for a pair.
MutualRegistrationWitness ==
    /\ last_call.op = "find_edges"
    /\ last_call.collided # {}
    /\ \E e \in edges : e.node_a # e.node_b /\ e \in node_edges[e.node_b]

\* C4: the graph's edge set holds at most one edge per unordered pair of
\* endpoint indices.
OneEdgePerPair ==
    \A a \in NodeIndices, b \in NodeIndices :
        Cardinality(PairEdges(edges, a, b)) <= 1

\* C4 witness: an edge from b to a with another transition was constructed
\* while the set held the edge from a to b, and the set holds one edge for
\* the pair.
OneEdgePerPairWitness ==
    /\ last_call.op = "find_edges"
    /\ \E e \in edges, d \in last_call.collided :
          /\ e.node_a # e.node_b
          /\ d.node_a = e.node_b
          /\ d.node_b = e.node_a
          /\ d.transition # e.transition
          /\ Cardinality(PairEdges(edges, e.node_a, e.node_b)) = 1

\* The first and the last position at which an outcome matched node m.
FirstMatch(out, m) ==
    CHOOSE i \in DOMAIN out.matches :
        out.matches[i] = m /\ \A j \in 1 .. i - 1 : out.matches[j] # m

LastMatch(out, m) ==
    CHOOSE i \in DOMAIN out.matches :
        /\ out.matches[i] = m
        /\ \A j \in i + 1 .. Len(out.matches) : out.matches[j] # m

\* The case of C3: candidate has exactly the mass of source plus Hex and
\* overlaps the widened query in time, Hex is among the transitions, and no
\* other node has the target mass of any of the transitions.
ExactHexCandidate(source, candidate, query_width, transitions) ==
    /\ NodeAt(candidate).neutral_mass
          = NodeAt(source).neutral_mass + Mass("Hex")
    /\ LET query == TimeQuery(NodeAt(source).chromatogram, query_width)
       IN candidate \in Overlaps(rt_tree, query.start, query.end)
    /\ "Hex" \in Range(transitions)
    /\ \A o \in NodeIndices \ {candidate}, i \in DOMAIN transitions :
          ~HasTargetMass(o, source, transitions[i])

\* The outcome claimed for that case: one edge more, the Hex edge from source
\* to candidate with mass_error 0 and rt_error source.center - candidate.center.
AddsTheHexEdge(source, candidate) ==
    /\ edges \subseteq edges'
    /\ edges' \ edges = {ExpectedEdge(source, candidate, "Hex")}
    /\ ExpectedEdge(source, candidate, "Hex").mass_error = <<0, 1>>

\* C3 as stated: in that case find_edges(source) adds exactly one edge, the
\* Hex edge from source to candidate.
ExactHexMatchAddsOneEdge ==
    [][\A c \in PossibleCalls :
          \A out \in OutcomesOf(c) :
             IsCall(c, out)
             => \A candidate \in NodeIndices :
                   ExactHexCandidate(c.node, candidate, c.query_width,
                                     c.transitions)
                   => AddsTheHexEdge(c.node, candidate)]_vars

\* Hex is the first of the transitions whose target mass the candidate has.
HexMatchesFirst(source, candidate, transitions) ==
    \E i \in DOMAIN transitions :
        /\ transitions[i] = "Hex"
        /\ \A j \in 1 .. i - 1 :
              ~HasTargetMass(candidate, source, transitions[j])

\* C3 amended: in that case, when no edge joins source and candidate yet and
\* Hex is the first transition in list order whose target mass the candidate
\* has, find_edges(source) adds exactly one edge: the Hex edge from source to
\* candidate, with mass_error 0 and rt_error source.center - candidate.center.
FirstExactHexMatchAddsOneEdge ==
    [][\A c \in PossibleCalls :
          \A out \in OutcomesOf(c) :
             IsCall(c, out)
             => \A candidate \in NodeIndices :
                   ( /\ ExactHexCandidate(c.node, candidate, c.query_width,
                                          c.transitions)
                     /\ PairEdges(edges, c.node, candidate) = {}
                     /\ HexMatchesFirst(c.node, candidate, c.transitions) )
                   => AddsTheHexEdge(c.node, candidate)]_vars

\* C3 witness: the only edge of the graph is a Hex edge with mass_error 0 to
\* a node that has exactly the mass of its source plus Hex, and no other
\* node has the target mass of a standard transition.
FirstExactHexMatchWitness ==
    /\ last_call = FindEdgesCalled({})
    /\ \E e \in edges :
          /\ edges = {e}
          /\ e = ExpectedEdge(e.node_a, e.node_b, "Hex")
          /\ e.mass_error = <<0, 1>>
          /\ e.rt_error # <<0, 1>>
          /\ ExactHexCandidate(e.node_a, e.node_b, DefaultQueryWidth,
                               StandardTransitions)

\* C5 as stated: the edge that is in the set for a pair after a call that
\* matched the pair's other node more than once is the edge of the last
\* matching transition.
LastConstructedEdgeSurvives ==
    [][\A c \in PossibleCalls :
          \A out \in OutcomesOf(c) :
             IsCall(c, out)
             => \A m \in Matched(out) :
                   FirstMatch(out, m) # LastMatch(out, m)
                   => PairEdges(edges', c.node, m)
                        = {ExpectedEdge(c.node, m,
                                        c.transitions[LastMatch(out, m)])}]_vars

\* C5 amended: the edge that survives for a pair is the first-constructed
\* one: an edge that is in the set before the call stays, and for a pair
\* with no edge yet the set takes the edge of the first matching transition
\* of the call; the edges constructed later for the pair are not stored.
FirstConstructedEdgeSurvives ==
    [][\A c \in PossibleCalls :
          \A out \in OutcomesOf(c) :
             IsCall(c, out)
             => \A m \in Matched(out) :
                   /\ PairEdges(edges', c.node, m)
                        = IF PairEdges(edges, c.node, m) # {}
                          THEN PairEdges(edges, c.node, m)
                          ELSE {ExpectedEdge(c.node, m,
                                             c.transitions[FirstMatch(out, m)])}
                   /\ PairEdges(node_edges'[c.node], c.node, m)
                        = PairEdges(edges', c.node, m)
                   /\ PairEdges(node_edges'[m], c.node, m)
                        = PairEdges(edges', c.node, m)]_vars

\* C5 witness: the latest call constructed an edge for a pair whose stored
\* edge, from the same source, carries another transition.
FirstConstructedEdgeWitness ==
    /\ last_call.op = "find_edges"
    /\ \E e \in edges, d \in last_call.collided :
          /\ d.node_a = e.node_a
          /\ d.node_b = e.node_b
          /\ d.node_a # d.node_b
          /\ d.transition # e.transition
          /\ PairEdges(edges, e.node_a, e.node_b) = {e}

\* C10: a find_edges call removes no edge from the graph's edge set or from
\* a node's edge set, leaves the chromatograms, the nodes, the interval
\* tree, the seed queue and assignment_map as they are, and changes the edge
\* sets of no node but the source and the nodes it matched.
FindEdgesFrame ==
    [][/\ edges \subseteq edges'
       /\ DOMAIN node_edges' = DOMAIN node_edges
       /\ \A i \in NodeIndices : node_edges[i] \subseteq node_edges'[i]
       /\ UNCHANGED <<chromatograms, nodes, rt_tree, assigned_seed_queue,
                      assignment_map>>
       /\ \E c \in PossibleCalls : \E out \in OutcomesOf(c) : IsCall(c, out)
       /\ \A c \in PossibleCalls :
             \A out \in OutcomesOf(c) :
                IsCall(c, out)
                => {i \in NodeIndices : node_edges'[i] # node_edges[i]}
                      \subseteq {c.node} \cup Matched(out)]_vars

\* C10 witness: a find_edges call has stored an edge, a node's edge set is
\* still empty, and the seed queue and assignment_map hold what construction
\* put there.
FindEdgesFrameWitness ==
    /\ last_call.op = "find_edges"
    /\ edges # {}
    /\ \E i \in NodeIndices : node_edges[i] = {}
    /\ Len(assigned_seed_queue) >= 2
    /\ DOMAIN assignment_map # {}

\* The nodes one edge away from a node of S, and S itself.
Adjacent(S) ==
    S \cup {e.node_a : e \in {f \in edges : f.node_b \in S}}
      \cup {e.node_b : e \in {f \in edges : f.node_a \in S}}

RECURSIVE Closure(_)
Closure(S) == IF Adjacent(S) = S THEN S ELSE Closure(Adjacent(S))

\* The connected component of node n: the nodes reachable from n by edge
\* adjacency, n included.
Component(n) == Closure({n})

\* C2 as stated: for every node n, explode_node(n) returns exactly the nodes
\* of the connected component of n, n included.
ExplodeReturnsComponent ==
    ex_pc = "returned" => Range(results) = Component(ex_start)

\* C2 amended: for every node n with at least one incident edge,
\* explode_node(n) returns exactly the nodes of the connected component of
\* n, and explode_node(m) returns an equal set for every node m of that
\* component.
ExplodeReturnsComponentOfLinkedNode ==
    (ex_pc = "returned" /\ node_edges[ex_start] # {})
    => /\ Range(results) = Component(ex_start)
       /\ \A m \in Component(ex_start) :
             Range(explode_node(node_edges, m)) = Range(results)

\* C2 witness: explode_node returned a component of several nodes that is
\* not the whole graph.
ExplodeReturnsComponentWitness ==
    /\ ex_pc = "returned"
    /\ Cardinality(Range(results)) >= 2
    /\ Range(results) # NodeIndices
    /\ ex_start # results[1]

\* C9: once called, explode_node returns (its work list empties), and its
\* result list never holds a node twice.
ExplodeTerminates ==
    /\ [](Cardinality(Range(results)) = Len(results))
    /\ (ex_pc = "loop") ~> (ex_pc = "returned")

\* C9 witness: explode_node returned on a graph with a cycle of three nodes
\* and a self-edge on the start node.
ExplodeTerminatesWitness ==
    /\ ex_pc = "returned"
    /\ Len(results) = 3
    /\ \E e \in node_edges[ex_start] : e.node_a = e.node_b
    /\ Cardinality({EndpointPair(e) : e \in {f \in edges : f.node_a # f.node_b}})
          = 3

\* C6: a generator made by iterseeds yields the seeds in the order in which
\* they were enqueued, each once; when it is exhausted it has yielded every
\* seed that was in the queue or came in meanwhile, and the queue is empty
\* (until the next enqueue), so that a generator made then yields nothing.
IterSeedsIsFifo ==
    /\ it_pc \in {"active", "exhausted"}
         => /\ it_from + Len(yielded) <= Len(enq_log)
            /\ yielded = SubSeq(enq_log, it_from + 1, it_from + Len(yielded))
    /\ it_pc = "active" => n_removed = it_from + Len(yielded)
    /\ it_pc = "exhausted"
         => /\ it_from + Len(yielded) = it_stop
            /\ Len(enq_log) = it_stop => assigned_seed_queue = <<>>
            /\ it_from = it_stop => yielded = <<>>

\* C6 witness: a generator has yielded three different seeds and is
\* exhausted, the queue is empty.
IterSeedsIsFifoWitness ==
    /\ it_pc = "exhausted"
    /\ Len(yielded) = 3
    /\ Cardinality(Range(yielded)) = 3
    /\ assigned_seed_queue = <<>>

\* C7: after construction nodes[i].index = i for every input position i, and
\* the seed queue holds the nodes whose chromatogram has a composition, one
\* entry each, in input order, and no other node.
ConstructionIndexesAndSeeds ==
    co_pc = "ready"
    => /\ Len(nodes) = Len(chromatograms)
       /\ \A i \in 0 .. Len(chromatograms) - 1 :
             /\ nodes[i + 1].index = i
             /\ nodes[i + 1].chromatogram = chromatograms[i + 1]
       /\ assigned_seed_queue = SeedsOf(chromatograms, Len(chromatograms))

\* C7 witness: a graph was constructed from three chromatograms of which the
\* second has no composition.
ConstructionIndexesAndSeedsWitness ==
    /\ co_pc = "ready"
    /\ Len(chromatograms) = 3
    /\ chromatograms[2].composition = NoComposition
    /\ assigned_seed_queue = <<0, 2>>

\* The last input position (0-based) that carries composition c.
LastWith(c) ==
    CHOOSE i \in 0 .. Len(chromatograms) - 1 :
        /\ chromatograms[i + 1].composition = c
        /\ \A j \in i + 1 .. Len(chromatograms) - 1 :
              chromatograms[j + 1].composition # c

\* C8: after construction the keys of assignment_map are the compositions in
\* the input, and each is mapped to the node of the last chromatogram that
\* carries it.
AssignmentMapLastWriterWins ==
    co_pc = "ready"
    => /\ DOMAIN assignment_map
            = {chromatograms[i].composition : i \in DOMAIN chromatograms}
                 \ {NoComposition}
       /\ \A c \in DOMAIN assignment_map : assignment_map[c] = LastWith(c)

\* C8 witness: a graph was constructed from an input in which two
\* chromatograms share a composition.
AssignmentMapLastWriterWinsWitness ==
    /\ co_pc = "ready"
    /\ \E i, j \in DOMAIN chromatograms :
          /\ i < j
          /\ chromatograms[i].composition = chromatograms[j].composition
          /\ chromatograms[i].composition # NoComposition
          /\ assignment_map[chromatograms[j].composition] = j - 1

====
